---- MODULE Spec2Model ----
(***************************************************************************)
(* A state-machine model of the reseller-backend catalog API               *)
(* (src/app/routers/{category,report,report_image,press_release}.py).      *)
(*                                                                         *)
(* The database tables are sets of rows; every endpoint is one action that *)
(* performs the whole handler and leaves its HTTP response in `resp`.      *)
(* create_report_image and create_report are also given statement by       *)
(* statement, for the behaviours in which several workers run side by side.*)
(* Text is modelled as sequences of one-character strings so that          *)
(* str.replace, str.split, LIKE patterns and lower-casing are computed     *)
(* the way Python and PostgreSQL compute them.                             *)
(***************************************************************************)
EXTENDS Integers, Sequences, FiniteSets, TLC

VARIABLES categories,   \* rows of table Category
          reports,      \* rows of table Report
          images,       \* rows of table ReportImage
          press,        \* rows of table PressRelease
          next_id,      \* the serial (auto-increment) counter of each table
          resp,         \* the response of the last request
          upload,       \* the file of the last Excel upload request
          inflight      \* per worker: the request it is in the middle of

vars == <<categories, reports, images, press, next_id, resp, upload, inflight>>

-----------------------------------------------------------------------------
(* Bounds of the model *)

\* the largest id a serial counter hands out
MaxId == 3

-----------------------------------------------------------------------------
(* Text: Python str and PostgreSQL text as sequences of characters *)

Min(a, b) == IF a < b THEN a ELSE b

\* str.lower() / the case folding of ILIKE, on the characters the model uses
LowerChar(c) ==
    CASE c = "A" -> "a" [] c = "B" -> "b" [] c = "G" -> "g" [] c = "M" -> "m"
      [] c = "W" -> "w" [] c = "N" -> "n" [] c = "S" -> "s" [] c = "I" -> "i"
      [] OTHER -> c

Lower(s) == [i \in 1..Len(s) |-> LowerChar(s[i])]

StartsWith(s, p) == Len(p) <= Len(s) /\ SubSeq(s, 1, Len(p)) = p

\* `old in s`
Contains(s, old) ==
    \E i \in 0..(Len(s) - Len(old)) : SubSeq(s, i + 1, i + Len(old)) = old

\* s.replace(old, new): every non-overlapping occurrence, left to right
RECURSIVE Replace(_, _, _)
Replace(s, old, new) ==
    IF Len(s) < Len(old) \/ old = <<>> THEN s
    ELSE IF StartsWith(s, old)
         THEN new \o Replace(SubSeq(s, Len(old) + 1, Len(s)), old, new)
         ELSE <<Head(s)>> \o Replace(Tail(s), old, new)

\* s.split(sep): the list of pieces, empty pieces kept
RECURSIVE SplitAcc(_, _, _)
SplitAcc(s, sep, cur) ==
    IF s = <<>> THEN <<cur>>
    ELSE IF StartsWith(s, sep)
         THEN <<cur>> \o SplitAcc(SubSeq(s, Len(sep) + 1, Len(s)), sep, <<>>)
         ELSE SplitAcc(Tail(s), sep, Append(cur, Head(s)))

Split(s, sep) == SplitAcc(s, sep, <<>>)

\* sep.join(parts)
RECURSIVE Join(_, _)
Join(parts, sep) ==
    IF parts = <<>> THEN <<>>
    ELSE IF Len(parts) = 1 THEN parts[1]
    ELSE parts[1] \o sep \o Join(Tail(parts), sep)

\* str(n) for n >= 0
DigitChar(d) ==
    CASE d = 0 -> "0" [] d = 1 -> "1" [] d = 2 -> "2" [] d = 3 -> "3"
      [] d = 4 -> "4" [] d = 5 -> "5" [] d = 6 -> "6" [] d = 7 -> "7"
      [] d = 8 -> "8" [] OTHER -> "9"

RECURSIVE Str(_)
Str(n) == IF n < 10 THEN <<DigitChar(n)>>
          ELSE Str(n \div 10) \o <<DigitChar(n % 10)>>

\* PostgreSQL `s LIKE p`: % is any run, _ any one character, backslash
\* (the default escape character) makes the next pattern character literal
RECURSIVE Like(_, _)
Like(s, p) ==
    IF p = <<>> THEN s = <<>>
    ELSE IF Head(p) = "%"
         THEN Like(s, Tail(p)) \/ (s # <<>> /\ Like(Tail(s), p))
    ELSE IF Head(p) = "_"
         THEN s # <<>> /\ Like(Tail(s), Tail(p))
    ELSE IF Head(p) = "\\" /\ Len(p) >= 2
         THEN s # <<>> /\ Head(s) = p[2] /\ Like(Tail(s), SubSeq(p, 3, Len(p)))
    ELSE s # <<>> /\ Head(s) = Head(p) /\ Like(Tail(s), Tail(p))

\* `s ILIKE p`
ILike(s, p) == Like(Lower(s), Lower(p))

-----------------------------------------------------------------------------
(* The database: column types, constraints, serial ids, query ordering *)

\* Python None / SQL NULL for an optional row: a sequence of length 0 or 1
None == <<>>
Some(row) == <<row>>

\* func.cast(created_date, DateTime): the timestamp PostgreSQL parses from the
\* stored string, or -1 where the cast raises "invalid input syntax"
CastDateTime(d) ==
    CASE d = "2024/01/01" -> 20240101
      [] d = "2024-01-01" -> 20240101
      [] d = "2024/02/01" -> 20240201
      [] OTHER -> -1

\* a variant of UniqueUrl for url columns without a unique index
UniqueUrl_off(rows, url, self_id) == TRUE

\* Category.url, Report.url and PressRelease.url are unique columns
UniqueUrl(rows, url, self_id) ==
    \A r \in rows : r.url = url => r.id = self_id

\* Report.category_id and PressRelease.category_id reference Category.id
ForeignKeyOk(category_id) ==
    \E c \in categories : c.id = category_id

\* the collation order of the category names in use (ORDER BY name ASC)
NameRank(name) ==
    CASE name = "Analytics" -> 1 [] name = "Analytics 2" -> 2 [] OTHER -> 3

\* Query.first() with no ORDER BY: any one of the matching rows, or None
First(rows) ==
    IF rows = {} THEN {None} ELSE {Some(r) : r \in rows}

\* every order in which the database may return `rows`
Perms(rows) ==
    LET n == Cardinality(rows)
    IN  {s \in [1..n -> rows] : \A i, j \in 1..n : i # j => s[i] # s[j]}

\* lexicographic <= on tuples of one or two integers
LexLe(a, b) ==
    \/ a[1] < b[1]
    \/ a[1] = b[1] /\ (Len(a) = 1 \/ a[2] <= b[2])

\* ORDER BY: the orders of `rows` that respect the ascending sort keys
\* key[row]; rows that tie on every key come in any order
OrderBy(rows, key) ==
    {s \in Perms(rows) :
        \A i, j \in 1..Len(s) : i < j => LexLe(key[s[i]], key[s[j]])}

\* OFFSET offset LIMIT limit on an ordered result
Page(s, offset, limit) ==
    SubSeq(s, offset + 1, Min(offset + limit, Len(s)))

\* PostgreSQL raises on a negative OFFSET or LIMIT
PageError(offset, limit) == offset < 0 \/ limit < 0

\* the HTTP response of a request
Response(op, status, req, data) ==
    [op |-> op, status |-> status, req |-> req, data |-> data]

\* no file; content_type is None when the part has no Content-Type header, and
\* `read` tells whether file.file has been read
NoUpload == [content_type |-> None, sheets |-> <<>>, read |-> FALSE]

-----------------------------------------------------------------------------
(* Requests the clients send *)

\* CreateCategoryRequest bodies (the columns icon, back_cover and meta_* are
\* copied like abr and are left out)
CategoryRequests ==
    { [abr |-> "ANA", name |-> "Analytics",  url |-> "analytics"],
      [abr |-> "SER", name |-> "Services",   url |-> "services"],
      [abr |-> "AN2", name |-> "Analytics 2", url |-> "analytics"] }

\* CreateReport bodies; `summary` stands for every text column the handlers
\* copy verbatim (summary, description, toc, highlights, faqs, meta_*, pages,
\* cover_img)
ReportRequests ==
    { [title |-> <<"A", "b">>, url |-> "u1", category_id |-> 1,
       summary |-> "s1", created_date |-> "2024/01/01"],
      [title |-> <<"a", "\\", "b">>, url |-> "u2", category_id |-> 2,
       summary |-> "s2", created_date |-> "2024-01-01"],
      [title |-> <<"b", " ", "a">>, url |-> "u3", category_id |-> 1,
       summary |-> "s3", created_date |-> "2024/02/01"],
      [title |-> <<"A", "b">>, url |-> "u1", category_id |-> 2,
       summary |-> "s4", created_date |-> "n/a"] }

\* CreateReportImageRequest bodies
ImageRequests ==
    { [img_name |-> <<"R", "P", "X", "X", "X">>, img_file |-> "f1"],
      [img_name |-> <<"R", "P", "X", "X", "X", "-", "X", "X", "X", "X">>,
       img_file |-> "f2"],
      [img_name |-> <<"R", "P", "1">>, img_file |-> "f2"],
      [img_name |-> <<"R", "P", "1">>, img_file |-> "f3"] }

\* the image lists of CreateReportWithImages bodies
ImageLists ==
    { <<>>,
      << [img_name |-> <<"R", "P", "X", "X", "X">>, img_file |-> "f1"] >>,
      << [img_name |-> <<"R", "P", "X", "X", "X", "-", "X", "X", "X", "X">>,
          img_file |-> "f2"] >>,
      << [img_name |-> <<"R", "P", "X", "X", "X">>, img_file |-> "f1"],
         [img_name |-> <<"R", "P", "X", "X", "X", "-", "X", "X", "X", "X">>,
          img_file |-> "f2"] >> }

\* the lists of at most two elements of S
Lists(S) == {<<>>} \cup {<<a>> : a \in S} \cup {<<a, b>> : a \in S, b \in S}

\* the ids a path parameter may carry
Ids == 1..MaxId

-----------------------------------------------------------------------------
(* category.py *)

\* create_category: `category(**category.dict())` calls the request object
\* itself, which raises TypeError before anything is added
create_category(category) ==
    /\ resp' = Response("create_category", 500, None, None)
    /\ UNCHANGED <<categories, reports, images, press, next_id, upload, inflight>>

\* the loop of create_category_bulk: one INSERT and commit per item; a
\* unique violation ends the request and keeps the rows committed so far
RECURSIVE InsertCategories(_, _, _)
InsertCategories(list, rows, nid) ==
    IF list = <<>> THEN [rows |-> rows, nid |-> nid, ok |-> TRUE, last |-> None]
    ELSE LET row == [id |-> nid] @@ Head(list)
         IN  IF ~UniqueUrl(rows, row.url, row.id)
             THEN [rows |-> rows, nid |-> nid + 1, ok |-> FALSE, last |-> None]
             ELSE LET rest == InsertCategories(Tail(list), rows \cup {row}, nid + 1)
                  IN  IF rest.ok /\ rest.last = None
                      THEN [rest EXCEPT !.last = Some(row)]
                      ELSE rest

\* create_category_bulk; with an empty list `db_category` is unbound at the
\* return statement
create_category_bulk(list) ==
    /\ next_id.category + Len(list) - 1 <= MaxId
    /\ LET r == InsertCategories(list, categories, next_id.category)
       IN  /\ categories' = r.rows
           /\ next_id' = [next_id EXCEPT !.category = r.nid]
           /\ resp' = IF r.ok /\ list # <<>>
                      THEN Response("create_category_bulk", 200, None, r.last)
                      ELSE Response("create_category_bulk", 500, None, None)
    /\ UNCHANGED <<reports, images, press, upload, inflight>>

\* get_category: all rows ordered by name
get_category ==
    /\ \E s \in OrderBy(categories,
                        [c \in categories |-> <<NameRank(c.name)>>]) :
          resp' = Response("get_category", 200, None, s)
    /\ UNCHANGED <<categories, reports, images, press, next_id, upload, inflight>>

\* get_category_by_id
get_category_by_id(category_id) ==
    /\ \E categoryData \in First({c \in categories : c.id = category_id}) :
          resp' = Response("get_category_by_id", 200, category_id, categoryData)
    /\ UNCHANGED <<categories, reports, images, press, next_id, upload, inflight>>

\* get_category_by_url
get_category_by_url(category_url) ==
    /\ \E categoryData \in First({c \in categories : c.url = category_url}) :
          resp' = Response("get_category_by_url", 200, category_url, categoryData)
    /\ UNCHANGED <<categories, reports, images, press, next_id, upload, inflight>>

-----------------------------------------------------------------------------
(* report.py: writes *)

\* the placeholder of an image name
XXX == <<"X", "X", "X">>

\* INSERT of a Report row: the foreign key and the unique url are checked
ReportInsertOk(rows, body, id) ==
    ForeignKeyOk(body.category_id) /\ UniqueUrl(rows, body.url, id)

\* a variant of ImageName that replaces the first placeholder only
ImageName_first(img_name, report_id) ==
    LET parts == Split(img_name, XXX)
    IN  IF Len(parts) = 1 THEN img_name
        ELSE parts[1] \o Str(report_id) \o Join(Tail(parts), XXX)

\* image.img_name.replace("XXX", str(db_report.id))
ImageName(img_name, report_id) == Replace(img_name, XXX, Str(report_id))

\* the image loop of create_report: the rows added for report `rid`, ids
\* taken from `first` on, in list order
NewImages(imgs, rid, first) ==
    { [id |-> first + i - 1,
       img_name |-> ImageName(imgs[i].img_name, rid),
       img_file |-> imgs[i].img_file] : i \in 1..Len(imgs) }

\* the body of the loop of bulk_create_report (and the whole of
\* create_report) on database `db`: add and commit the report, then add and
\* commit each image
CreateOne(db, item) ==
    LET rid == db.next_id.report
        row == [id |-> rid] @@ item.report
    IN  IF ~ReportInsertOk(db.reports, item.report, rid)
        THEN [db EXCEPT !.next_id.report = rid + 1, !.ok = FALSE]
        ELSE [reports |-> db.reports \cup {row},
              images  |-> db.images \cup
                          NewImages(item.images, rid, db.next_id.image),
              next_id |-> [db.next_id EXCEPT
                             !.report = rid + 1,
                             !.image = db.next_id.image + Len(item.images)],
              ok |-> TRUE]

RECURSIVE CreateAll(_, _)
CreateAll(db, list) ==
    IF list = <<>> \/ ~db.ok THEN db
    ELSE CreateAll(CreateOne(db, Head(list)), Tail(list))

Db == [reports |-> reports, images |-> images, next_id |-> next_id, ok |-> TRUE]

\* the serial counters stay within the model bound
RECURSIVE ImageCount(_)
ImageCount(list) ==
    IF list = <<>> THEN 0 ELSE Len(Head(list).images) + ImageCount(Tail(list))

\* a serial counter is followed over MaxId ids from where it starts: from 1
\* in a new database, from 10 in one that has handed out nine ids
Within(n) == IF n >= 10 THEN n - 9 <= MaxId ELSE n <= MaxId

Room(list) ==
    /\ Within(next_id.report + Len(list) - 1)
    /\ Within(next_id.image + ImageCount(list) - 1)

\* create_report
create_report(report) ==
    /\ Room(<<report>>)
    /\ LET db == CreateOne(Db, report)
       IN  /\ reports' = db.reports
           /\ images' = db.images
           /\ next_id' = db.next_id
           /\ resp' = Response("create_report", IF db.ok THEN 200 ELSE 500,
                               None, None)
    /\ UNCHANGED <<categories, press, upload, inflight>>

\* bulk_create_report
bulk_create_report(list) ==
    /\ Room(list)
    /\ LET db == CreateAll(Db, list)
       IN  /\ reports' = db.reports
           /\ images' = db.images
           /\ next_id' = db.next_id
           /\ resp' = Response("bulk_create_report", IF db.ok THEN 200 ELSE 500,
                               None, None)
    /\ UNCHANGED <<categories, press, upload, inflight>>

\* a variant of SetAttrs that leaves created_date as stored
SetAttrs_keep_date(row, values) ==
    [f \in DOMAIN row |-> IF f \in DOMAIN values \ {"created_date"}
                          THEN values[f] ELSE row[f]]

\* for attr, value in new.dict().items(): setattr(row, attr, value)
SetAttrs(row, values) ==
    [f \in DOMAIN row |-> IF f \in DOMAIN values THEN values[f] ELSE row[f]]

\* what a PUT request is addressed to: the id in its path and the id in its
\* body
PutRequest(path_id, body) == [path |-> path_id, id |-> body.id]

\* a variant of update_report that looks the row up by the id of the path
update_report_by_path(report_id, new_report) ==
    /\ LET found == {r \in reports : r.id = report_id}
           req == PutRequest(report_id, new_report)
       IN  IF found = {}
           THEN /\ resp' = Response("update_report", 404, req, None)
                /\ UNCHANGED reports
           ELSE LET existing_report == CHOOSE r \in found : TRUE
                    updated == [SetAttrs(existing_report, new_report)
                                  EXCEPT !.id = report_id]
                IN  IF ~ReportInsertOk(reports, updated, updated.id)
                    THEN /\ resp' = Response("update_report", 500, req, None)
                         /\ UNCHANGED reports
                    ELSE /\ reports' = (reports \ found) \cup {updated}
                         /\ resp' = Response("update_report", 200, req,
                                             Some(updated))
    /\ UNCHANGED <<categories, images, press, next_id, upload, inflight>>

\* update_report: the row is looked up by the body's id; report_id, the path
\* parameter, is not a parameter of the handler
update_report(report_id, new_report) ==
    /\ LET found == {r \in reports : r.id = new_report.id}
       IN  IF found = {}
           THEN /\ resp' = Response("update_report", 404, PutRequest(report_id, new_report), None)
                /\ UNCHANGED reports
           ELSE LET existing_report == CHOOSE r \in found : TRUE
                    updated == SetAttrs(existing_report, new_report)
                IN  IF ~ReportInsertOk(reports, updated, updated.id)
                    THEN /\ resp' = Response("update_report", 500, PutRequest(report_id, new_report), None)
                         /\ UNCHANGED reports
                    ELSE /\ reports' = (reports \ found) \cup {updated}
                         /\ resp' = Response("update_report", 200,
                                             PutRequest(report_id, new_report),
                                             Some(updated))
    /\ UNCHANGED <<categories, images, press, next_id, upload, inflight>>

\* a variant of delete_report that also deletes the images named after the
\* report
delete_report_cascade(report_id) ==
    /\ LET report == {r \in reports : r.id = report_id}
       IN  IF report = {}
           THEN /\ resp' = Response("delete_report", 404, report_id, None)
                /\ UNCHANGED <<reports, images>>
           ELSE /\ reports' = reports \ report
                /\ images' = {i \in images :
                                ~Like(i.img_name, <<"%", "R", "P">> \o Str(report_id)
                                                    \o <<"%">>)}
                /\ resp' = Response("delete_report", 200, report_id, None)
    /\ UNCHANGED <<categories, press, next_id, upload, inflight>>

\* delete_report
delete_report(report_id) ==
    /\ LET report == {r \in reports : r.id = report_id}
       IN  IF report = {}
           THEN /\ resp' = Response("delete_report", 404, report_id, None)
                /\ UNCHANGED reports
           ELSE /\ reports' = reports \ report
                /\ resp' = Response("delete_report", 200, report_id, None)
    /\ UNCHANGED <<categories, images, press, next_id, upload, inflight>>

\* create_report as the database sees it, commit by commit: first the
\* Report row is added and committed (a rejected INSERT ends the request)
create_report_begin(w, report) ==
    /\ inflight[w] = None
    /\ next_id.report <= MaxId
    /\ LET rid == next_id.report
       IN  /\ next_id' = [next_id EXCEPT !.report = rid + 1]
           /\ IF ReportInsertOk(reports, report.report, rid)
              THEN /\ reports' = reports \cup {[id |-> rid] @@ report.report}
                   /\ inflight' = [inflight EXCEPT ![w] =
                                     Some([op |-> "create_report",
                                           report_id |-> rid,
                                           images |-> report.images,
                                           written |-> {}])]
                   /\ UNCHANGED resp
              ELSE /\ resp' = Response("create_report", 500, None, None)
                   /\ UNCHANGED <<reports, inflight>>
    /\ UNCHANGED <<categories, images, press, upload>>

\* the request of worker w is a create_report that still has images to add
AddingImages(w) ==
    /\ inflight[w] # None
    /\ inflight[w][1].op = "create_report"
    /\ inflight[w][1].images # <<>>

\* one turn of the image loop: the next image of the list is renamed, added
\* and committed
create_report_add_image(w) ==
    /\ AddingImages(w)
    /\ next_id.image <= MaxId
    /\ LET q == inflight[w][1]
           image == Head(q.images)
           new_image == [id |-> next_id.image,
                         img_name |-> ImageName(image.img_name, q.report_id),
                         img_file |-> image.img_file]
       IN  /\ images' = images \cup {new_image}
           /\ next_id' = [next_id EXCEPT !.image = @ + 1]
           /\ inflight' = [inflight EXCEPT ![w] =
                             Some([q EXCEPT !.images = Tail(q.images),
                                            !.written = @ \cup {new_image.id}])]
    /\ UNCHANGED <<categories, reports, press, resp, upload>>

\* a variant of create_report_abort that undoes what the request has
\* committed
create_report_abort_rollback(w) ==
    /\ AddingImages(w)
    /\ LET q == inflight[w][1]
       IN  /\ reports' = {r \in reports : r.id # q.report_id}
           /\ images' = {i \in images : i.id \notin q.written}
    /\ resp' = Response("create_report", 500, None, None)
    /\ inflight' = [inflight EXCEPT ![w] = None]
    /\ UNCHANGED <<categories, press, next_id, upload>>

\* the INSERT or commit of the next image raises (the database rejects the
\* row or is unreachable): the exception ends the request, and what was
\* committed before stays
create_report_abort(w) ==
    /\ AddingImages(w)
    /\ resp' = Response("create_report", 500, None, None)
    /\ inflight' = [inflight EXCEPT ![w] = None]
    /\ UNCHANGED <<categories, reports, images, press, next_id, upload>>

\* the loop is over: the handler returns
create_report_return(w) ==
    /\ inflight[w] # None
    /\ inflight[w][1].op = "create_report"
    /\ inflight[w][1].images = <<>>
    /\ resp' = Response("create_report", 200, None, None)
    /\ inflight' = [inflight EXCEPT ![w] = None]
    /\ UNCHANGED <<categories, reports, images, press, next_id, upload>>

-----------------------------------------------------------------------------
(* report_image.py *)

\* a variant of FindImage that never finds a row
FindImage_none(img_name) == {None}

\* db.query(ReportImage).filter(ReportImage.img_name == img_name).first()
FindImage(img_name) == First({i \in images : i.img_name = img_name})

\* a variant of create_report_image that returns the row it inserted
create_report_image_returns_new(image) ==
    /\ \E existing_image \in FindImage(image.img_name) :
          IF existing_image = None
          THEN LET new_image == [id |-> next_id.image] @@ image
               IN  /\ next_id.image <= MaxId
                   /\ images' = images \cup {new_image}
                   /\ next_id' = [next_id EXCEPT !.image = @ + 1]
                   /\ resp' = Response("create_report_image", 200, None,
                                       Some(new_image))
          ELSE LET refreshed == SetAttrs(existing_image[1], image)
               IN  /\ images' = (images \ {existing_image[1]}) \cup {refreshed}
                   /\ UNCHANGED next_id
                   /\ resp' = Response("create_report_image", 200, None,
                                       Some(refreshed))
    /\ UNCHANGED <<categories, reports, press, upload, inflight>>

\* create_report_image: overwrite the row found by img_name, or insert; the
\* response carries `existing_image`, which is None on the insert branch
create_report_image(image) ==
    /\ \E existing_image \in FindImage(image.img_name) :
          IF existing_image = None
          THEN /\ next_id.image <= MaxId
               /\ images' = images \cup {[id |-> next_id.image] @@ image}
               /\ next_id' = [next_id EXCEPT !.image = @ + 1]
               /\ resp' = Response("create_report_image", 200, None, None)
          ELSE LET refreshed == SetAttrs(existing_image[1], image)
               IN  /\ images' = (images \ {existing_image[1]}) \cup {refreshed}
                   /\ UNCHANGED next_id
                   /\ resp' = Response("create_report_image", 200, None,
                                       Some(refreshed))
    /\ UNCHANGED <<categories, reports, press, upload, inflight>>

\* get_images_by_search: img_name LIKE %image_name%
get_images_by_search(image_name) ==
    /\ \E s \in Perms({i \in images :
                        Like(i.img_name, <<"%">> \o image_name \o <<"%">>)}) :
          resp' = Response("get_images_by_search", 200, image_name, s)
    /\ UNCHANGED <<categories, reports, images, press, next_id, upload, inflight>>

\* a variant of delete_report_image that reports success for an unknown id
delete_report_image_quiet(image_id) ==
    /\ images' = {i \in images : i.id # image_id}
    /\ resp' = Response("delete_report_image", 200, image_id, None)
    /\ UNCHANGED <<categories, reports, press, next_id, upload, inflight>>

\* delete_report_image
delete_report_image(image_id) ==
    /\ LET image == {i \in images : i.id = image_id}
       IN  IF image = {}
           THEN /\ resp' = Response("delete_report_image", 404, image_id, None)
                /\ UNCHANGED images
           ELSE /\ images' = images \ image
                /\ resp' = Response("delete_report_image", 200, image_id, None)
    /\ UNCHANGED <<categories, reports, press, next_id, upload, inflight>>

\* create_report_image as the database sees it when several workers serve
\* requests: first the SELECT by img_name of one worker ...
create_report_image_select(w, image) ==
    /\ inflight[w] = None
    /\ \E existing_image \in FindImage(image.img_name) :
          inflight' = [inflight EXCEPT ![w] =
                         Some([op |-> "create_report_image", image |-> image,
                               existing_image |-> existing_image])]
    /\ UNCHANGED <<categories, reports, images, press, next_id, resp, upload>>

\* ... later its INSERT, or its UPDATE of the row it had found, and the
\* commit
create_report_image_commit(w) ==
    /\ inflight[w] # None
    /\ inflight[w][1].op = "create_report_image"
    /\ LET image == inflight[w][1].image
           existing_image == inflight[w][1].existing_image
       IN  IF existing_image = None
           THEN /\ next_id.image <= MaxId
                /\ images' = images \cup {[id |-> next_id.image] @@ image}
                /\ next_id' = [next_id EXCEPT !.image = @ + 1]
                /\ resp' = Response("create_report_image", 200, None, None)
           ELSE LET refreshed == SetAttrs(existing_image[1], image)
                IN  /\ images' = {i \in images : i.id # refreshed.id}
                                   \cup {refreshed}
                    /\ UNCHANGED next_id
                    /\ resp' = Response("create_report_image", 200, None,
                                        Some(refreshed))
    /\ inflight' = [inflight EXCEPT ![w] = None]
    /\ UNCHANGED <<categories, reports, press, upload>>

-----------------------------------------------------------------------------
(* report.py: reads *)

\* the rows of Report JOIN Category ON Category.id = Report.category_id
Joined(rows) ==
    UNION { { [report |-> r, category |-> c] :
                c \in {k \in categories : k.id = r.category_id} } : r \in rows }

\* a variant of CategoryCounts over a LEFT OUTER JOIN from Category
CategoryCounts_outer(rows) ==
    { [category_id |-> c.id, category_url |-> c.url, category_abr |-> c.abr,
       category_name |-> c.name,
       count |-> Cardinality({r \in rows : r.category_id = c.id})] :
        c \in categories }

\* GROUP BY Category.id with count(Report.category_id) over the inner join
CategoryCounts(rows) ==
    { [category_id |-> c.id, category_url |-> c.url, category_abr |-> c.abr,
       category_name |-> c.name,
       count |-> Cardinality({j \in Joined(rows) : j.category.id = c.id})] :
        c \in {j.category : j \in Joined(rows)} }

\* get_category_count
get_category_count ==
    /\ \E s \in OrderBy(CategoryCounts(reports),
                        [c \in CategoryCounts(reports) |->
                           <<NameRank(c.category_name)>>]) :
          resp' = Response("get_category_count", 200, None, s)
    /\ UNCHANGED <<categories, reports, images, press, next_id, upload, inflight>>

\* get_reports: the joined rows ordered by id descending
get_reports ==
    /\ \E s \in OrderBy({j.report : j \in Joined(reports)},
                        [r \in reports |-> <<-r.id>>]) :
          resp' = Response("get_reports", 200, None, s)
    /\ UNCHANGED <<categories, reports, images, press, next_id, upload, inflight>>

\* ORDER BY cast(created_date AS DateTime) DESC
DateDesc(rows) == [r \in rows |-> <<-CastDateTime(r.created_date)>>]

\* the cast raises for a row whose created_date is no timestamp
CastError(rows) == \E r \in rows : CastDateTime(r.created_date) = -1

\* the words of a text for full-text search: lower-cased runs of letters
\* (stemming and stop words are not modelled)
Words(text) ==
    LET letters == [i \in 1..Len(text) |->
                      IF text[i] \in {"a", "b", "A", "B"}
                      THEN LowerChar(text[i]) ELSE " "]
    IN  {w \in {Split(letters, <<" ">>)[i] :
                  i \in 1..Len(Split(letters, <<" ">>))} : w # <<>>}

\* to_tsvector('english', title) @@ plainto_tsquery('english', keyword)
Match(title, keyword) ==
    Words(keyword) # {} /\ Words(keyword) \subseteq Words(title)

\* the filter of get_searched_reports / get_searched_press_releases
SearchFilter(title, keyword) ==
    Match(title, keyword) \/ ILike(title, <<"%">> \o keyword \o <<"%">>)

\* the responses of a paginated query whose ordered results are `orders`:
\* the database error for a negative OFFSET or LIMIT or a failed cast, one
\* page otherwise
Paginated(op, req, rows, orders, offset, limit, casts) ==
    IF PageError(offset, limit) \/ (casts /\ CastError(rows))
    THEN {Response(op, 500, req, None)}
    ELSE {Response(op, 200, req, Page(s, offset, limit)) : s \in orders}

\* get_latest_reports: ordered by date descending, then id ascending
get_latest_reports(page, per_page) ==
    /\ LET offset == (page - 1) * per_page
       IN  resp' \in Paginated("get_latest_reports",
                     [page |-> page, per_page |-> per_page], reports,
                     OrderBy(reports,
                        [r \in reports |->
                           <<-CastDateTime(r.created_date), r.id>>]),
                     offset, per_page, TRUE)
    /\ UNCHANGED <<categories, reports, images, press, next_id, upload, inflight>>

\* get_searched_reports; category_id is None or Some(id)
get_searched_reports(page, per_page, keyword, category_id) ==
    /\ LET offset == (page - 1) * per_page
           query == {r \in {j.report : j \in Joined(reports)} :
                        SearchFilter(r.title, keyword)}
           rows == IF category_id # None
                   THEN {r \in query : r.category_id = category_id[1]}
                   ELSE query
       IN  resp' \in Paginated("get_searched_reports",
                     [page |-> page, per_page |-> per_page,
                      keyword |-> keyword, category_id |-> category_id],
                     rows, OrderBy(rows, DateDesc(rows)), offset, per_page, TRUE)
    /\ UNCHANGED <<categories, reports, images, press, next_id, upload, inflight>>

\* get_reports_by_category
get_reports_by_category(category_url, page, per_page) ==
    /\ LET offset == (page - 1) * per_page
           rows == IF category_url # "all-industries"
                   THEN {j.report : j \in {k \in Joined(reports) :
                                            k.category.url = category_url}}
                   ELSE {j.report : j \in Joined(reports)}
       IN  resp' \in Paginated("get_reports_by_category",
                     [category_url |-> category_url, page |-> page,
                      per_page |-> per_page],
                     rows, OrderBy(rows, DateDesc(rows)), offset, per_page, TRUE)
    /\ UNCHANGED <<categories, reports, images, press, next_id, upload, inflight>>

\* get_report_by_report_id: `report.category_id` is read from the result of
\* first() with no None check, which raises AttributeError for an unknown
\* id; the images are the rows whose name is LIKE %RP{report_id}% (the Price
\* table has no writer and its list is left out)
get_report_by_report_id(report_id) ==
    /\ \E report \in First({j.report : j \in {k \in Joined(reports) :
                                               k.report.id = report_id}}) :
          IF report = None
          THEN resp' = Response("get_report_by_report_id", 500, report_id, None)
          ELSE \E category \in First({c \in categories :
                                        c.id = report[1].category_id}),
                  imgs \in Perms({i \in images :
                             Like(i.img_name, <<"%", "R", "P">>
                                                \o Str(report_id) \o <<"%">>)}) :
                  resp' = Response("get_report_by_report_id", 200, report_id,
                                   [report |-> report[1], category |-> category,
                                    images |-> imgs])
    /\ UNCHANGED <<categories, reports, images, press, next_id, upload, inflight>>

\* the row of a by-url lookup that joins the category: the columns of the
\* report or press release with the name, url and abr of its category
WithCategory(j) ==
    j.report @@ [category_name |-> j.category.name,
                 category_url |-> j.category.url,
                 category_abr |-> j.category.abr]

\* get_report_by_url: GetReportByUrl(id=report.id, ...) reads the result of
\* first() with no None check
get_report_by_url(report_url) ==
    /\ \E report \in First({j \in Joined(reports) : j.report.url = report_url}) :
          resp' = IF report = None
                  THEN Response("get_report_by_url", 500, report_url, None)
                  ELSE Response("get_report_by_url", 200, report_url,
                                Some(WithCategory(report[1])))
    /\ UNCHANGED <<categories, reports, images, press, next_id, upload, inflight>>

\* the columns a metadata lookup selects (meta_title, meta_desc and
\* meta_keyword are carried by summary)
MetaData(row) == [url |-> row.url, summary |-> row.summary]

\* a variant of get_reportmeta_by_url that answers an unknown url with null
\* data
get_reportmeta_by_url_null(report_url) ==
    /\ \E report \in First({r \in reports : r.url = report_url}) :
          resp' = IF report = None
                  THEN Response("get_reportmeta_by_url", 200, report_url, None)
                  ELSE Response("get_reportmeta_by_url", 200, report_url,
                                Some(MetaData(report[1])))
    /\ UNCHANGED <<categories, reports, images, press, next_id, upload, inflight>>

\* get_reportmeta_by_url: GetReportMetaData(url=report.url, ...) reads the
\* result of first() with no None check
get_reportmeta_by_url(report_url) ==
    /\ \E report \in First({r \in reports : r.url = report_url}) :
          resp' = IF report = None
                  THEN Response("get_reportmeta_by_url", 500, report_url, None)
                  ELSE Response("get_reportmeta_by_url", 200, report_url,
                                Some(MetaData(report[1])))
    /\ UNCHANGED <<categories, reports, images, press, next_id, upload, inflight>>

-----------------------------------------------------------------------------
(* press_release.py *)

\* CreatePressReleaseRequest bodies; `summary` stands for every text column
\* copied verbatim
PressReleaseRequests ==
    { [title |-> <<"A", "b">>, url |-> "p1", category_id |-> 1, report_id |-> 1,
       summary |-> "s1", created_date |-> "2024/01/01"],
      [title |-> <<"b", " ", "a">>, url |-> "p2", category_id |-> 2, report_id |-> 2,
       summary |-> "s2", created_date |-> "2024/02/01"],
      [title |-> <<"a", "\\", "b">>, url |-> "p1", category_id |-> 3, report_id |-> 1,
       summary |-> "s3", created_date |-> "2024-01-01"] }

\* INSERT or UPDATE of a PressRelease row
PressInsertOk(rows, body, id) ==
    ForeignKeyOk(body.category_id) /\ UniqueUrl(rows, body.url, id)

\* create_press_release
create_press_release(press_release) ==
    /\ next_id.press_release <= MaxId
    /\ LET id == next_id.press_release
           db_press_release == [id |-> id] @@ press_release
       IN  /\ next_id' = [next_id EXCEPT !.press_release = id + 1]
           /\ IF PressInsertOk(press, press_release, id)
              THEN /\ press' = press \cup {db_press_release}
                   /\ resp' = Response("create_press_release", 200, None,
                                       Some(db_press_release))
              ELSE /\ UNCHANGED press
                   /\ resp' = Response("create_press_release", 500, None, None)
    /\ UNCHANGED <<categories, reports, images, upload, inflight>>

\* update_press_release: the row is looked up by the body's id
update_press_release(press_release_id, new_press_release) ==
    /\ LET found == {r \in press : r.id = new_press_release.id}
       IN  IF found = {}
           THEN /\ resp' = Response("update_press_release", 404,
                                    PutRequest(press_release_id, new_press_release),
                                    None)
                /\ UNCHANGED press
           ELSE LET existing_press_release == CHOOSE r \in found : TRUE
                    updated == SetAttrs(existing_press_release, new_press_release)
                IN  IF ~PressInsertOk(press, updated, updated.id)
                    THEN /\ resp' = Response("update_press_release", 500,
                                             PutRequest(press_release_id, new_press_release),
                                    None)
                         /\ UNCHANGED press
                    ELSE /\ press' = (press \ found) \cup {updated}
                         /\ resp' = Response("update_press_release", 200,
                                             PutRequest(press_release_id,
                                                        new_press_release),
                                             Some(updated))
    /\ UNCHANGED <<categories, reports, images, next_id, upload, inflight>>

\* delete_press_release
delete_press_release(press_release_id) ==
    /\ LET press_release == {r \in press : r.id = press_release_id}
       IN  IF press_release = {}
           THEN /\ resp' = Response("delete_press_release", 404,
                                    press_release_id, None)
                /\ UNCHANGED press
           ELSE /\ press' = press \ press_release
                /\ resp' = Response("delete_press_release", 200,
                                    press_release_id, None)
    /\ UNCHANGED <<categories, reports, images, next_id, upload, inflight>>

\* get_searched_press_releases
get_searched_press_releases(page, per_page, keyword) ==
    /\ LET offset == (page - 1) * per_page
           rows == {r \in {j.report : j \in Joined(press)} :
                       SearchFilter(r.title, keyword)}
       IN  resp' \in Paginated("get_searched_press_releases",
                     [page |-> page, per_page |-> per_page, keyword |-> keyword],
                     rows, OrderBy(rows, DateDesc(rows)), offset, per_page, TRUE)
    /\ UNCHANGED <<categories, reports, images, press, next_id, upload, inflight>>

\* get_press_release_category_count
get_press_release_category_count ==
    /\ \E s \in OrderBy(CategoryCounts(press),
                        [c \in CategoryCounts(press) |->
                           <<NameRank(c.category_name)>>]) :
          resp' = Response("get_press_release_category_count", 200, None, s)
    /\ UNCHANGED <<categories, reports, images, press, next_id, upload, inflight>>

\* the collation order of the created_date strings in use
DateStringRank(d) ==
    CASE d = "2024-01-01" -> 1 [] d = "2024/01/01" -> 2
      [] d = "2024/02/01" -> 3 [] OTHER -> 4

\* get_latest_reports of press_release.py: ordered by date descending, then
\* by the created_date string ascending
pr_get_latest_reports(page, per_page) ==
    /\ LET offset == (page - 1) * per_page
       IN  resp' \in Paginated("pr_get_latest_reports",
                     [page |-> page, per_page |-> per_page], press,
                     OrderBy(press,
                        [r \in press |->
                           <<-CastDateTime(r.created_date),
                             DateStringRank(r.created_date)>>]),
                     offset, per_page, TRUE)
    /\ UNCHANGED <<categories, reports, images, press, next_id, upload, inflight>>

\* a variant of get_press_release_by_category_url that filters by the url
\* in both branches
get_press_release_by_category_url_filtered(category_url, page, per_page) ==
    /\ LET offset == (page - 1) * per_page
           rows == {j.report : j \in {k \in Joined(press) :
                                        k.category.url = category_url}}
       IN  resp' \in Paginated("get_press_release_by_category_url",
                     [category_url |-> category_url, page |-> page,
                      per_page |-> per_page],
                     rows, Perms(rows), offset, per_page, FALSE)
    /\ UNCHANGED <<categories, reports, images, press, next_id, upload, inflight>>

\* get_press_release_by_category_url: neither branch has an ORDER BY
get_press_release_by_category_url(category_url, page, per_page) ==
    /\ LET offset == (page - 1) * per_page
           rows == IF category_url = "all-industries"
                   THEN {j.report : j \in Joined(press)}
                   ELSE {j.report : j \in {k \in Joined(press) :
                                            k.category.url = category_url}}
       IN  resp' \in Paginated("get_press_release_by_category_url",
                     [category_url |-> category_url, page |-> page,
                      per_page |-> per_page],
                     rows, Perms(rows), offset, per_page, FALSE)
    /\ UNCHANGED <<categories, reports, images, press, next_id, upload, inflight>>

\* get_press_release_by_url: the result of first() is read with no None
\* check
get_press_release_by_url(press_release_url) ==
    /\ \E press_release \in First({j \in Joined(press) :
                                     j.report.url = press_release_url}) :
          resp' = IF press_release = None
                  THEN Response("get_press_release_by_url", 500,
                                press_release_url, None)
                  ELSE Response("get_press_release_by_url", 200,
                                press_release_url,
                                Some(WithCategory(press_release[1])))
    /\ UNCHANGED <<categories, reports, images, press, next_id, upload, inflight>>

\* get_press_release_meta_by_url: the result of first() is read with no None
\* check
get_press_release_meta_by_url(press_release_url) ==
    /\ \E press_release \in First({r \in press : r.url = press_release_url}) :
          resp' = IF press_release = None
                  THEN Response("get_press_release_meta_by_url", 500,
                                press_release_url, None)
                  ELSE Response("get_press_release_meta_by_url", 200,
                                press_release_url,
                                Some(MetaData(press_release[1])))
    /\ UNCHANGED <<categories, reports, images, press, next_id, upload, inflight>>

-----------------------------------------------------------------------------
(* report.py: convert_excel_to_json *)

GLOBAL == <<"G", "l", "o", "b", "a", "l">>
WIDGET == <<"W", "i", "d", "g", "e", "t">>
MARKET == <<"M", "a", "r", "k", "e", "t">>
SIZE == <<"S", "i", "z", "e">>
NON == <<"N", "o", "n">>
INDUSTRY == <<"I", "n", "d", "u", "s", "t", "r", "y">>
SP == <<" ">>

\* the titles of the spreadsheet rows
Titles ==
    { GLOBAL \o SP \o WIDGET \o SP \o MARKET,
      GLOBAL \o SP \o WIDGET \o SP \o MARKET \o SP \o SIZE,
      WIDGET \o SP \o MARKET,
      NON \o SP \o GLOBAL \o SP \o WIDGET \o SP \o MARKET,
      GLOBAL \o SP \o WIDGET \o SP \o INDUSTRY }

\* the category names of the spreadsheet rows
CategoryNames == {"Analytics", "Services", "Agriculture", "Widgets"}

\* a category_id cell: the name read from the sheet, or the id it resolved to
Name(n) == [name |-> n]
Id(n) == [id |-> n]

\* the loop over category_list: the id of the entry whose name equals the
\* cell, the cell unchanged when no entry matches
CategoryLookup(cell) ==
    CASE cell = Name("Analytics") -> Id(1)
      [] cell = Name("Agriculture") -> Id(22)
      [] cell = Name("Services") -> Id(5)
      [] OTHER -> cell

\* (title.lower().split('market')[0] + 'market').replace('global ', '')
\*   .split(' '), joined with '-'
Url(title) ==
    LET cut == Split(Lower(title), Lower(MARKET))[1] \o Lower(MARKET)
        stripped == Replace(cut, Lower(GLOBAL) \o SP, <<>>)
    IN  Join(Split(stripped, SP), <<"-">>)

\* the body of the loop over json_data: one CreateReportWithImages payload
Payload(jdata) ==
    [report |-> [title |-> jdata.title,
                 url |-> Url(jdata.title),
                 category_id |-> CategoryLookup(jdata.category_id),
                 faqs |-> <<>>, cover_img |-> <<>>, meta_keyword |-> <<>>],
     images |-> <<>>]

\* a variant of JsonData that keeps the rows of every sheet
RECURSIVE JsonData_all(_)
JsonData_all(sheets) ==
    IF sheets = <<>> THEN <<>> ELSE Head(sheets) \o JsonData_all(Tail(sheets))

\* `for sheet_name, sheet_data in data.items(): json_data = ...` keeps the
\* rows of the last sheet only
JsonData(sheets) == IF sheets = <<>> THEN <<>> ELSE sheets[Len(sheets)]

\* file.content_type.lower()
LowerContentType(t) ==
    CASE t = "APPLICATION/VND.MS-EXCEL" -> "application/vnd.ms-excel"
      [] OTHER -> t

\* a variant of ExcelTypes that also accepts CSV files
ExcelTypes_csv ==
    { "application/vnd.openxmlformats-officedocument.spreadsheetml.sheet",
      "application/vnd.ms-excel", "text/csv" }

ExcelTypes ==
    { "application/vnd.openxmlformats-officedocument.spreadsheetml.sheet",
      "application/vnd.ms-excel" }

\* convert_excel_to_json: a wrong content type raises ValueError, which the
\* handler turns into an {"error": ...} body with status 200; a missing
\* content type raises AttributeError on None.lower(), which the catch-all
\* turns into a JSON string, also with status 200; otherwise pd.read_excel
\* reads the file
convert_excel_to_json ==
    /\ upload # NoUpload
    /\ IF upload.content_type = None
       THEN /\ resp' = Response("convert_excel_to_json", 200, None,
                                [dumps |-> [error |-> "AttributeError"]])
            /\ UNCHANGED upload
       ELSE IF LowerContentType(upload.content_type[1]) \notin ExcelTypes
       THEN /\ resp' = Response("convert_excel_to_json", 200, None,
                                [error |-> "Invalid file format"])
            /\ UNCHANGED upload
       ELSE LET json_data == JsonData(upload.sheets)
            IN  /\ upload' = [upload EXCEPT !.read = TRUE]
                /\ resp' = Response("convert_excel_to_json", 200, None,
                                    [payload |-> [i \in 1..Len(json_data) |->
                                                    Payload(json_data[i])]])
    /\ UNCHANGED <<categories, reports, images, press, next_id, inflight>>

\* the spreadsheet rows, sheets and files of the upload requests
Rows == {[title |-> t, category_id |-> Name(c)] : t \in Titles, c \in CategoryNames}

Sheets == {<<>>} \cup {<<r>> : r \in Rows}
          \cup {<<a, b>> : a \in {r \in Rows : r.category_id = Name("Analytics")},
                           b \in {r \in Rows : r.category_id = Name("Widgets")}}

Uploads ==
    { [content_type |-> t, sheets |-> w, read |-> FALSE] :
        t \in {None} \cup {Some(x) : x \in ExcelTypes \cup
                                {"APPLICATION/VND.MS-EXCEL", "text/csv"}},
        w \in {<<a>> : a \in Sheets}
              \cup {<<a, b>> : a \in {<<r>> : r \in Rows}, b \in {x \in Sheets : Len(x) <= 1}} }

-----------------------------------------------------------------------------
(* Specifications *)

NoResponse == Response("", 0, None, None)

\* the worker processes that serve requests side by side
Workers == {"w1", "w2"}

\* no worker is in the middle of a request
Idle == [w \in Workers |-> None]

\* the database after construction: every table empty
Init ==
    /\ categories = {}
    /\ reports = {}
    /\ images = {}
    /\ press = {}
    /\ next_id = [category |-> 1, report |-> 1, image |-> 1, press_release |-> 1]
    /\ resp = NoResponse
    /\ upload = NoUpload
    /\ inflight = Idle

\* the database once the categories are loaded (by create_category_bulk)
InitLoaded ==
    /\ categories = { [id |-> 1, abr |-> "ANA", name |-> "Analytics", url |-> "analytics"],
                      [id |-> 2, abr |-> "SER", name |-> "Services", url |-> "services"] }
    /\ reports = {}
    /\ images = {}
    /\ press = {}
    /\ next_id = [category |-> 3, report |-> 1, image |-> 1, press_release |-> 1]
    /\ resp = NoResponse
    /\ upload = NoUpload
    /\ inflight = Idle

\* CreateReportWithImages bodies
ReportWithImagesRequests ==
    { [report |-> r, images |-> i] : r \in ReportRequests, i \in ImageLists }

\* CreateReportWithImages bodies with no image
ReportOnlyRequests == {r \in ReportWithImagesRequests : r.images = <<>>}

\* the lists bulk_create_report is called with
BulkReportRequests ==
    Lists({r \in ReportWithImagesRequests :
              Len(r.images) = 1 /\ r.report.summary \in {"s1", "s2"}})

\* UpdateReport and UpdatePressReleaseRequest bodies
UpdateReportRequests ==
    { [id |-> id] @@ r : id \in Ids, r \in ReportRequests }

UpdatePressReleaseRequests ==
    { [id |-> id] @@ r : id \in Ids, r \in PressReleaseRequests }

\* query parameters of the paginated endpoints
Pages == {0, 1, 2}
PerPages == {0, 1, 2}
Keywords == { <<"a", "B">>, <<"\\">>, <<"b">>, <<"a", "_", "b">> }
CategoryUrls == {"all-industries", "analytics", "services"}

\* categories and reports, from the empty database
Next ==
    \/ \E c \in CategoryRequests : create_category(c)
    \/ \E l \in Lists(CategoryRequests) : create_category_bulk(l)
    \/ get_category
    \/ \E id \in Ids : get_category_by_id(id)
    \/ \E u \in CategoryUrls : get_category_by_url(u)
    \/ \E r \in ReportOnlyRequests : create_report(r)
    \/ \E r \in UpdateReportRequests : update_report(r.id, r)
    \/ \E id \in Ids : delete_report(id)
    \/ get_reports
    \/ get_category_count

Spec == Init /\ [][Next]_vars

\* reports with their images
NextImages ==
    \/ \E r \in {x \in ReportWithImagesRequests : x.report.summary \in {"s1", "s2"}} :
          create_report(r)
    \/ \E l \in BulkReportRequests : bulk_create_report(l)
    \/ \E id \in Ids : delete_report(id)
    \/ \E i \in {x \in ImageRequests : x.img_file = "f3"} : create_report_image(i)
    \/ \E id \in Ids : delete_report_image(id)

SpecImages == InitLoaded /\ [][NextImages]_vars

\* the report image endpoints alone, from the empty table
NextUpsert ==
    \/ \E i \in ImageRequests : create_report_image(i)
    \/ \E n \in {<<"R", "P">>, <<"R", "P", "1">>} : get_images_by_search(n)

SpecUpsert == Init /\ [][NextUpsert]_vars

\* the paginated report endpoints
NextSearch ==
    \/ \E r \in ReportOnlyRequests : create_report(r)
    \/ \E id \in Ids : delete_report(id)
    \/ \E p \in Pages, n \in PerPages : get_latest_reports(p, n)
    \/ \E p \in Pages, n \in PerPages, k \in Keywords, c \in {None, Some(1)} :
          get_searched_reports(p, n, k, c)
    \/ \E u \in CategoryUrls, p \in Pages, n \in PerPages :
          get_reports_by_category(u, p, n)

SpecSearch == InitLoaded /\ [][NextSearch]_vars

\* the press release endpoints
NextPress ==
    \/ \E r \in PressReleaseRequests : create_press_release(r)
    \/ \E r \in UpdatePressReleaseRequests : update_press_release(r.id, r)
    \/ \E id \in Ids : delete_press_release(id)
    \/ \E p \in Pages, n \in PerPages, k \in Keywords :
          get_searched_press_releases(p, n, k)
    \/ get_press_release_category_count
    \/ \E p \in Pages, n \in PerPages : pr_get_latest_reports(p, n)
    \/ \E u \in CategoryUrls, p \in Pages, n \in PerPages :
          get_press_release_by_category_url(u, p, n)

SpecPress == InitLoaded /\ [][NextPress]_vars

\* the full-replace updates of reports and press releases
NextUpdate ==
    \/ \E r \in ReportOnlyRequests : create_report(r)
    \/ \E r \in UpdateReportRequests : update_report(r.id, r)
    \/ \E r \in PressReleaseRequests : create_press_release(r)
    \/ \E r \in UpdatePressReleaseRequests : update_press_release(r.id, r)

SpecUpdate == InitLoaded /\ [][NextUpdate]_vars

\* the Excel upload, one file per behaviour
InitExcel ==
    /\ categories = {}
    /\ reports = {}
    /\ images = {}
    /\ press = {}
    /\ next_id = [category |-> 1, report |-> 1, image |-> 1, press_release |-> 1]
    /\ resp = NoResponse
    /\ upload \in Uploads
    /\ inflight = Idle

NextExcel == convert_excel_to_json

SpecExcel == InitExcel /\ [][NextExcel]_vars

\* the handlers that look a row up by id before they write; the creations
\* stop one id short of the bound, so that the largest id is never a row
NextNotFound ==
    \/ \E r \in {x \in ReportWithImagesRequests :
                    x.report.summary = "s1" /\ Len(x.images) = 1
                      /\ x.images[1].img_file = "f1"} :
          next_id.report < MaxId /\ create_report(r)
    \/ \E r \in {x \in PressReleaseRequests : x.summary = "s1"} :
          next_id.press_release < MaxId /\ create_press_release(r)
    \/ \E r \in {x \in UpdateReportRequests : x.summary = "s2"} :
          update_report(r.id, r)
    \/ \E id \in Ids : delete_report(id)
    \/ \E r \in {x \in UpdatePressReleaseRequests : x.summary = "s2"} :
          update_press_release(r.id, r)
    \/ \E id \in Ids : delete_press_release(id)
    \/ \E id \in Ids : delete_report_image(id)

SpecNotFound == InitLoaded /\ [][NextNotFound]_vars


\* the lists by category url of reports and press releases
NextByCategory ==
    \/ \E r \in {x \in ReportOnlyRequests : x.report.summary \in {"s1", "s2"}} :
          create_report(r)
    \/ \E r \in PressReleaseRequests : create_press_release(r)
    \/ \E u \in CategoryUrls, p \in Pages, n \in PerPages :
          get_reports_by_category(u, p, n)
    \/ \E u \in CategoryUrls, p \in Pages, n \in PerPages :
          get_press_release_by_category_url(u, p, n)

SpecByCategory == InitLoaded /\ [][NextByCategory]_vars

\* the lookups of one report or press release
NextLookup ==
    \/ \E r \in {x \in ReportOnlyRequests : x.report.summary \in {"s1", "s2"}} :
          create_report(r)
    \/ \E id \in Ids : delete_report(id)
    \/ \E r \in PressReleaseRequests : create_press_release(r)
    \/ \E id \in Ids : delete_press_release(id)
    \/ \E id \in Ids : get_report_by_report_id(id)
    \/ \E u \in {"u1", "u2"} : get_report_by_url(u)
    \/ \E u \in {"u1", "u2"} : get_reportmeta_by_url(u)
    \/ \E u \in {"p1", "p2"} : get_press_release_by_url(u)
    \/ \E u \in {"p1", "p2"} : get_press_release_meta_by_url(u)

SpecLookup == InitLoaded /\ [][NextLookup]_vars

\* two workers serving create_report_image requests side by side
NextRace ==
    \/ \E w \in Workers, i \in ImageRequests : create_report_image_select(w, i)
    \/ \E w \in Workers : create_report_image_commit(w)

SpecRace == Init /\ [][NextRace]_vars

\* create_report commit by commit, two workers and a reader
NextSteps ==
    \/ \E w \in Workers,
          r \in {x \in ReportWithImagesRequests :
                    x.report.summary \in {"s1", "s2"}} :
          create_report_begin(w, r)
    \/ \E w \in Workers : create_report_add_image(w)
    \/ \E w \in Workers : create_report_abort(w)
    \/ \E w \in Workers : create_report_return(w)
    \/ \E id \in Ids : get_report_by_report_id(id)

SpecSteps == InitLoaded /\ [][NextSteps]_vars

\* a database in use for a while: report 1 and its image are stored, the
\* reports 2 to 9 and their images were created and deleted again, so the
\* next report and the next image get id 10
InitTenth ==
    /\ categories = { [id |-> 1, abr |-> "ANA", name |-> "Analytics", url |-> "analytics"],
                      [id |-> 2, abr |-> "SER", name |-> "Services", url |-> "services"] }
    /\ reports = { [id |-> 1, title |-> <<"A", "b">>, url |-> "u1",
                    category_id |-> 1, summary |-> "s1",
                    created_date |-> "2024/01/01"] }
    /\ images = { [id |-> 1, img_name |-> <<"R", "P", "1">>, img_file |-> "u1"] }
    /\ press = {}
    /\ next_id = [category |-> 3, report |-> 10, image |-> 10, press_release |-> 1]
    /\ resp = NoResponse
    /\ upload = NoUpload
    /\ inflight = Idle

\* CreateReportWithImages bodies whose images follow the naming convention
\* and carry the url of their report as img_file
OwnedImagesRequests ==
    { [report |-> r,
       images |-> [i \in 1..Len(l) |-> [img_name |-> l[i].img_name,
                                        img_file |-> r.url]]] :
        r \in ReportRequests, l \in ImageLists \ {<<>>} }

\* the report ids in use from InitTenth on
TenthIds == {1} \cup (10..(9 + MaxId))

\* reports created with images, and the page that loads a report with its
\* images
NextOwner ==
    \/ \E r \in OwnedImagesRequests : create_report(r)
    \/ \E id \in TenthIds : get_report_by_report_id(id)

SpecOwner == InitTenth /\ [][NextOwner]_vars

\* PUT requests whose path names one row and whose body names another
NextPath ==
    \/ \E r \in {x \in ReportOnlyRequests : x.report.summary \in {"s1", "s2"}} :
          create_report(r)
    \/ \E r \in {x \in PressReleaseRequests : x.summary \in {"s1", "s2"}} :
          create_press_release(r)
    \/ \E id \in Ids, r \in {x \in UpdateReportRequests : x.summary = "s3"} :
          update_report(id, r)
    \/ \E id \in Ids, r \in {x \in UpdatePressReleaseRequests : x.summary = "s2"} :
          update_press_release(id, r)

SpecPath == InitLoaded /\ [][NextPath]_vars

-----------------------------------------------------------------------------
(* Properties *)

\* the elements of a sequence
Range(s) == {s[i] : i \in 1..Len(s)}

PaginatedOps ==
    { "get_latest_reports", "get_searched_reports", "get_reports_by_category",
      "get_searched_press_releases", "pr_get_latest_reports",
      "get_press_release_by_category_url" }

\* C1: a search whose single page is large enough to hold every report
\* returns every stored report whose title contains the keyword as a
\* case-insensitive substring (and whose category_id is the requested one,
\* when one is given).
C1_SearchIncludesSubstringMatches ==
    (/\ resp.op = "get_searched_reports"
     /\ resp.req.page = 1
     /\ resp.req.per_page >= Cardinality(reports))
    => \A r \in reports :
          (/\ Contains(Lower(r.title), Lower(resp.req.keyword))
           /\ resp.req.category_id # None =>
                 r.category_id = resp.req.category_id[1])
          => r \in Range(resp.data)

\* C2: for page >= 1 the response of a paginated press release endpoint is
\* the rows at positions (page-1)*per_page+1 .. page*per_page of the matching
\* rows ordered by created_date descending.
C2_PageOfDateOrder ==
    (/\ resp.op \in { "get_searched_press_releases", "pr_get_latest_reports",
                      "get_press_release_by_category_url" }
     /\ resp.req.page >= 1)
    => LET matching ==
             CASE resp.op = "get_searched_press_releases" ->
                    {r \in press : SearchFilter(r.title, resp.req.keyword)}
               [] resp.op = "pr_get_latest_reports" -> press
               [] OTHER ->
                    IF resp.req.category_url = "all-industries" THEN press
                    ELSE {r \in press :
                            \E c \in categories :
                               c.id = r.category_id /\ c.url = resp.req.category_url}
       IN  /\ resp.status = 200
           /\ \E s \in OrderBy(matching, DateDesc(matching)) :
                 resp.data = Page(s, (resp.req.page - 1) * resp.req.per_page,
                                  resp.req.per_page)

\* C3: a paginated request with page < 1 is rejected with a client error and
\* returns no rows.
C3_PageBelowOneRejected ==
    (resp.op \in PaginatedOps /\ resp.req.page < 1)
    => (resp.status \in {400, 422} /\ resp.data = None)

\* C4: get_category_by_id answers an existing id with exactly that row and an
\* unknown id with a NotFound error.
C4_CategoryByIdOrNotFound ==
    resp.op = "get_category_by_id"
    => IF \E c \in categories : c.id = resp.req
       THEN resp.status = 200 /\ \E c \in categories :
                                   c.id = resp.req /\ resp.data = Some(c)
       ELSE resp.status = 404

\* a row without its id
Body(row) == [f \in DOMAIN row \ {"id"} |-> row[f]]

\* the name and file of an image row
NameAndFile(m) == [img_name |-> m.img_name, img_file |-> m.img_file]

\* `name` with each occurrence of XXX replaced by the decimal form of id
Substitute(name, id) == Join(Split(name, XXX), Str(id))

RECURSIVE SumLen(_, _)
SumLen(list, n) ==
    IF n = 0 THEN 0 ELSE Len(list[n].images) + SumLen(list, n - 1)

\* the step created the first reports of `list`, and the image rows it added
\* are those requested with them, each named after its own report's id
ImagesNamedAfterOwnReport(list) ==
    LET N == reports' \ reports
        n == Cardinality(N)
        Of(k) == CHOOSE r \in N : Body(r) = list[k].report
    IN  /\ n <= Len(list)
        /\ \A k \in 1..n : \E r \in N : Body(r) = list[k].report
        /\ {NameAndFile(m) : m \in images' \ images}
             = UNION { { [img_name |-> Substitute(list[k].images[j].img_name, Of(k).id),
                          img_file |-> list[k].images[j].img_file] :
                           j \in 1..Len(list[k].images) } : k \in 1..n }
        /\ Cardinality(images' \ images) = SumLen(list, n)

\* C5: every ReportImage row inserted by create_report and bulk_create_report
\* is named as requested with each "XXX" replaced by the id of the report
\* created with it; in a bulk request each report's images carry that
\* report's own id.
C5_PlaceholderReplacedByOwnId ==
    [][ /\ \A r \in ReportWithImagesRequests :
              (resp'.op = "create_report" /\ create_report(r))
                 => ImagesNamedAfterOwnReport(<<r>>)
        /\ \A l \in BulkReportRequests :
              (resp'.op = "bulk_create_report" /\ bulk_create_report(l))
                 => ImagesNamedAfterOwnReport(l) ]_vars

C5_Witness ==
    /\ resp.op = "bulk_create_report"
    /\ resp.status = 200
    /\ \E a, b \in images :
          /\ a.img_name = <<"R", "P", "1">>
          /\ b.img_name = <<"R", "P", "2", "-", "2", "X">>

RECURSIVE SumCount(_)
SumCount(s) == IF s = <<>> THEN 0 ELSE Head(s).count + SumCount(Tail(s))

\* C6: every category get_category_count lists has count >= 1, and the counts
\* add up to the number of Report rows.
C6_CountsSumToReports ==
    resp.op = "get_category_count"
    => /\ \A i \in 1..Len(resp.data) : resp.data[i].count >= 1
       /\ SumCount(resp.data) = Cardinality(reports)

C6_Witness ==
    /\ resp.op = "get_category_count"
    /\ Len(resp.data) = 2
    /\ Cardinality(reports) = 3

\* the url the claim describes: the lower-cased title without a leading
\* "global ", cut after its first "market", its words joined with hyphens
DescribedUrl(title) ==
    LET low == Lower(title)
        prefix == Lower(GLOBAL) \o SP
        stripped == IF StartsWith(low, prefix)
                    THEN SubSeq(low, Len(prefix) + 1, Len(low)) ELSE low
        truncated == IF Contains(stripped, Lower(MARKET))
                     THEN Split(stripped, Lower(MARKET))[1] \o Lower(MARKET)
                     ELSE stripped
    IN  Join(Split(truncated, SP), <<"-">>)

\* C7: every payload entry of the Excel transform has the url derived from
\* its title (lower-cased, "global " prefix stripped, truncated at "market",
\* words joined with hyphens) and the category_id the hardcoded table gives
\* for its category name; "Global Widget Market" in "Analytics" gives
\* "widget-market" and 1.
C7_UrlAndCategoryDerived ==
    (resp.op = "convert_excel_to_json" /\ "payload" \in DOMAIN resp.data)
    => \A i \in 1..Len(resp.data.payload) :
          LET row == JsonData(upload.sheets)[i]
              out == resp.data.payload[i].report
          IN  /\ out.url = DescribedUrl(row.title)
              /\ row.category_id = Name("Analytics") => out.category_id = Id(1)
              /\ row.category_id = Name("Services") => out.category_id = Id(5)
              /\ row.category_id = Name("Agriculture") => out.category_id = Id(22)

\* the rows of a table that carry img_name `name`
Named(rows, name) == {i \in rows : i.img_name = name}

\* C8: create_report_image overwrites the row of the given img_name when
\* there is one, leaving the number of rows unchanged, and inserts exactly
\* one row otherwise; with only such calls from an empty table there is
\* one row per img_name, holding the img_file of the last call for it.
C8_UpsertByName ==
    [][ \A image \in ImageRequests :
          (resp'.op = "create_report_image" /\ create_report_image(image)) =>
            /\ IF Named(images, image.img_name) # {}
               THEN /\ Cardinality(images') = Cardinality(images)
                    /\ {i.id : i \in images'} = {i.id : i \in images}
               ELSE Cardinality(images') = Cardinality(images) + 1
            /\ \E row \in images' :
                  /\ Named(images', image.img_name) = {row}
                  /\ row.img_file = image.img_file
            /\ \A i \in images : i.img_name # image.img_name => i \in images'
            /\ \A i, j \in images' : i.img_name = j.img_name => i = j ]_vars

C8_Witness ==
    /\ resp.op = "create_report_image"
    /\ resp.data # None
    /\ Cardinality(images) = 2
    /\ \E i \in images : i.img_name = <<"R", "P", "1">> /\ i.img_file = "f3" /\ i.id = 1

\* C9: delete_report on an existing id removes exactly that Report row and
\* leaves every ReportImage row and every other Report row unchanged.
C9_DeleteLeavesImages ==
    [][ \A report_id \in Ids :
          (/\ resp'.op = "delete_report"
           /\ delete_report(report_id)
           /\ \E r \in reports : r.id = report_id) =>
            /\ reports' = {r \in reports : r.id # report_id}
            /\ Cardinality(reports') = Cardinality(reports) - 1
            /\ images' = images ]_vars

C9_Witness ==
    /\ resp.op = "delete_report"
    /\ resp.status = 200
    /\ \E i \in images : i.img_name = <<"R", "P">> \o Str(resp.req)
    /\ reports # {}

\* C10: after a successful update_report or update_press_release the
\* targeted row equals the request in every column, the number of rows is
\* unchanged and every other row is unchanged.
C10_UpdateIsFullReplace ==
    [][ /\ \A id \in Ids, r \in UpdateReportRequests :
              (resp'.op = "update_report" /\ resp'.status = 200
                 /\ update_report(id, r)) =>
                /\ {x \in reports' : x.id = r.id} = {r}
                /\ Cardinality(reports') = Cardinality(reports)
                /\ {x \in reports' : x.id # r.id} = {x \in reports : x.id # r.id}
                /\ press' = press
        /\ \A id \in Ids, r \in UpdatePressReleaseRequests :
              (resp'.op = "update_press_release" /\ resp'.status = 200
                 /\ update_press_release(id, r)) =>
                /\ {x \in press' : x.id = r.id} = {r}
                /\ Cardinality(press') = Cardinality(press)
                /\ {x \in press' : x.id # r.id} = {x \in press : x.id # r.id}
                /\ reports' = reports ]_vars

C10_Witness ==
    /\ resp.op = "update_press_release"
    /\ resp.status = 200
    /\ Cardinality(press) = 2
    /\ Cardinality(reports) = 2
    /\ \E x \in reports : x.id = 1 /\ x.url = "u3"
    /\ \E x \in press : x.id = resp.req.id /\ x.url = "p2" /\ x.id = 1

\* the four tables
Tables == <<categories, reports, images, press>>

\* C11: update_report, delete_report, update_press_release,
\* delete_press_release and delete_report_image, called with an id that
\* matches no row, respond 404 and leave every table unchanged (the update
\* handlers look the row up by the id of the request body).
C11_UnknownIdIs404 ==
    [][ /\ \A id \in Ids, r \in UpdateReportRequests :
              (/\ resp'.op = "update_report"
               /\ update_report(id, r)
               /\ \A x \in reports : x.id # r.id) =>
                resp'.status = 404 /\ UNCHANGED Tables
        /\ \A id \in Ids :
              (/\ resp'.op = "delete_report"
               /\ delete_report(id)
               /\ \A x \in reports : x.id # id) =>
                resp'.status = 404 /\ UNCHANGED Tables
        /\ \A id \in Ids, r \in UpdatePressReleaseRequests :
              (/\ resp'.op = "update_press_release"
               /\ update_press_release(id, r)
               /\ \A x \in press : x.id # r.id) =>
                resp'.status = 404 /\ UNCHANGED Tables
        /\ \A id \in Ids :
              (/\ resp'.op = "delete_press_release"
               /\ delete_press_release(id)
               /\ \A x \in press : x.id # id) =>
                resp'.status = 404 /\ UNCHANGED Tables
        /\ \A id \in Ids :
              (/\ resp'.op = "delete_report_image"
               /\ delete_report_image(id)
               /\ \A x \in images : x.id # id) =>
                resp'.status = 404 /\ UNCHANGED Tables ]_vars

C11_Witness ==
    /\ resp.op = "delete_report_image"
    /\ resp.status = 404
    /\ images # {}
    /\ reports # {}
    /\ press # {}
    /\ \A x \in images : x.id # resp.req

\* the urls of the category a report or press release row belongs to
CategoryUrlOf(row) == {c.url : c \in {k \in categories : k.id = row.category_id}}

\* the rows a list by category url may return from `table`
Eligible(table, category_url) ==
    IF category_url = "all-industries"
    THEN {r \in table : CategoryUrlOf(r) # {}}
    ELSE {r \in table : category_url \in CategoryUrlOf(r)}

\* the successful response of a list by category url over `table`
ListsEligible(table) ==
    LET eligible == Eligible(table, resp.req.category_url)
    IN  /\ Range(resp.data) \subseteq eligible
        /\ (resp.req.page = 1 /\ resp.req.per_page >= Cardinality(eligible)) =>
              Range(resp.data) = eligible

\* C12: get_reports_by_category and get_press_release_by_category_url with
\* the token "all-industries" apply no category filter (rows of every
\* category are returned when the page is large enough); with any other
\* category_url they return only rows whose category has that url.
C12_AllIndustriesMeansNoFilter ==
    /\ (resp.op = "get_reports_by_category" /\ resp.status = 200) =>
          ListsEligible(reports)
    /\ (resp.op = "get_press_release_by_category_url" /\ resp.status = 200) =>
          ListsEligible(press)

C12_Witness ==
    /\ resp.op = "get_press_release_by_category_url"
    /\ resp.status = 200
    /\ resp.req.category_url = "all-industries"
    /\ Len(resp.data) = 2
    /\ resp.data[1].category_id # resp.data[2].category_id
    /\ Cardinality(reports) = 2

\* C13: after any sequence of create_category and create_category_bulk
\* calls no two Category rows have the same url, so get_category_by_url
\* identifies at most one row.
C13_CategoryUrlUnique ==
    /\ \A c, d \in categories : c.url = d.url => c = d
    /\ \A u \in CategoryUrls :
          Cardinality(First({c \in categories : c.url = u})) = 1

C13_Witness ==
    /\ resp.op = "create_category_bulk"
    /\ resp.status = 500
    /\ Cardinality(categories) = 2
    /\ \E c \in categories : c.id = 1 /\ c.url = "analytics"
    /\ \E c \in categories : c.id = 2 /\ c.url = "services"
    /\ next_id.category = 4

\* the two accepted spreadsheet MIME types (MIME type names are compared
\* without regard to case)
AcceptedMimeTypes ==
    { "application/vnd.openxmlformats-officedocument.spreadsheetml.sheet",
      "application/vnd.ms-excel" }

\* C14: an Excel upload whose content type is not one of the two accepted
\* spreadsheet MIME types is answered with the error: the file is not read
\* and no creation payload is produced.
C14_WrongMimeTypeIsError ==
    (/\ resp.op = "convert_excel_to_json"
     /\ upload.content_type # None
     /\ LowerContentType(upload.content_type[1]) \notin AcceptedMimeTypes) =>
        /\ DOMAIN resp.data = {"error"}
        /\ ~upload.read

C14_Witness ==
    /\ resp.op = "convert_excel_to_json"
    /\ upload.content_type = Some("text/csv")
    /\ Len(upload.sheets) = 2
    /\ "error" \in DOMAIN resp.data
    /\ ~upload.read

\* the rows of `rows` that hold the fields of request `body`
Holding(rows, body) == {r \in rows : Body(r) = body}

\* the urls of a list of requests are pairwise distinct and not yet stored
FreshUrls(list) ==
    /\ \A i, j \in 1..Len(list) : list[i].url = list[j].url => i = j
    /\ \A i \in 1..Len(list), c \in categories : c.url # list[i].url

\* the bulk half of C15: n rows are added, one per item with its fields
BulkAddsOnePerItem ==
    \A list \in Lists(CategoryRequests) :
        (/\ resp'.op = "create_category_bulk"
         /\ create_category_bulk(list)
         /\ FreshUrls(list)) =>
            /\ categories \subseteq categories'
            /\ Cardinality(categories') = Cardinality(categories) + Len(list)
            /\ \A i \in 1..Len(list) :
                  Holding(categories' \ categories, list[i]) # {}

\* C15: create_category adds exactly one Category row holding the request's
\* fields and returns it; create_category_bulk with n items adds n rows, one
\* per item with that item's fields.
C15_CreateAddsTheRows ==
    [][ /\ \A category \in CategoryRequests :
              (/\ resp'.op = "create_category"
               /\ create_category(category)
               /\ FreshUrls(<<category>>)) =>
                  /\ categories \subseteq categories'
                  /\ Cardinality(categories') = Cardinality(categories) + 1
                  /\ \E row \in Holding(categories' \ categories, category) :
                        resp'.data = Some(row)
        /\ BulkAddsOnePerItem ]_vars

\* the lookup answered in this step failed with a server error and changed
\* no table
FailedUnhandled == resp'.status = 500 /\ UNCHANGED Tables

\* C16: get_report_by_url, get_reportmeta_by_url, get_press_release_by_url
\* and get_press_release_meta_by_url for an absent url, and
\* get_report_by_report_id for an absent id, fail with an unhandled error
\* (500), not with a 404 and not with a success, and change no table.
C16_AbsentLookupFails ==
    [][ /\ \A u \in {"u1", "u2"} :
              (/\ resp'.op = "get_report_by_url"
               /\ get_report_by_url(u)
               /\ \A r \in reports : r.url # u) => FailedUnhandled
        /\ \A u \in {"u1", "u2"} :
              (/\ resp'.op = "get_reportmeta_by_url"
               /\ get_reportmeta_by_url(u)
               /\ \A r \in reports : r.url # u) => FailedUnhandled
        /\ \A u \in {"p1", "p2"} :
              (/\ resp'.op = "get_press_release_by_url"
               /\ get_press_release_by_url(u)
               /\ \A r \in press : r.url # u) => FailedUnhandled
        /\ \A u \in {"p1", "p2"} :
              (/\ resp'.op = "get_press_release_meta_by_url"
               /\ get_press_release_meta_by_url(u)
               /\ \A r \in press : r.url # u) => FailedUnhandled
        /\ \A id \in Ids :
              (/\ resp'.op = "get_report_by_report_id"
               /\ get_report_by_report_id(id)
               /\ \A r \in reports : r.id # id) => FailedUnhandled ]_vars

C16_Witness ==
    /\ resp.op = "get_reportmeta_by_url"
    /\ resp.status = 500
    /\ resp.req = "u2"
    /\ reports # {}
    /\ press # {}
    /\ \A r \in reports : r.url # "u2"

\* C17: for a workbook with several worksheets the payload has one entry per
\* row of the last worksheet, in row order, none from an earlier worksheet,
\* and every entry has an empty images list.
C17_LastSheetOnly ==
    (/\ resp.op = "convert_excel_to_json"
     /\ "payload" \in DOMAIN resp.data
     /\ Len(upload.sheets) >= 2) =>
        LET last == upload.sheets[Len(upload.sheets)]
            payload == resp.data.payload
        IN  /\ Len(payload) = Len(last)
            /\ \A i \in 1..Len(payload) :
                  /\ payload[i].report.title = last[i].title
                  /\ payload[i].images = <<>>

C17_Witness ==
    /\ resp.op = "convert_excel_to_json"
    /\ "payload" \in DOMAIN resp.data
    /\ Len(upload.sheets) = 2
    /\ Len(upload.sheets[1]) = 1
    /\ Len(resp.data.payload) = 1
    /\ resp.data.payload[1].report.title # upload.sheets[1][1].title
    /\ resp.data.payload[1].report.title = upload.sheets[2][1].title

\* C18: for every interleaving of create_report_image requests that carry
\* the same img_name, started on a table with no row of that name, the table
\* ends (once the requests are answered) with exactly one row of that name.
C18_OneRowPerNameUnderConcurrency ==
    (inflight = Idle) =>
        \A image \in ImageRequests :
            Cardinality(Named(images, image.img_name)) <= 1

\* the ids of the rows of a table
IdsOf(rows) == {r.id : r \in rows}

\* C19: create_report commits the Report row before any image and commits
\* each image separately, in list order: a step that writes an image for
\* report N adds that one row, named after N, while report N is already
\* stored; and when the insert of the k-th image fails, the report and the
\* k-1 images written before stay stored (nothing is rolled back).
C19_ReportThenImagesOneByOne ==
    [][ \A w \in Workers :
          /\ create_report_add_image(w) =>
                LET q == inflight[w][1]
                IN  /\ q.report_id \in IdsOf(reports)
                    /\ reports' = reports
                    /\ Cardinality(images' \ images) = 1
                    /\ images \subseteq images'
                    /\ \A i \in images' \ images :
                          /\ NameAndFile(i).img_file = Head(q.images).img_file
                          /\ i.img_name = Substitute(Head(q.images).img_name,
                                                     q.report_id)
          /\ (create_report_abort(w) /\ inflight'[w] = None) =>
                LET q == inflight[w][1]
                IN  /\ resp'.status = 500
                    /\ q.report_id \in IdsOf(reports')
                    /\ q.written \subseteq IdsOf(images')
                    /\ UNCHANGED Tables ]_vars

\* a reader sees report N with the first of its two images while the request
\* that creates it is still running
C19_Witness ==
    /\ resp.op = "get_report_by_report_id"
    /\ resp.status = 200
    /\ Len(resp.data.images) = 1
    /\ \E w \in Workers :
          /\ AddingImages(w)
          /\ inflight[w][1].report_id = resp.req
          /\ Len(inflight[w][1].images) = 1
          /\ inflight[w][1].written = {resp.data.images[1].id}

\* the images created with `report` (requests of OwnedImagesRequests store
\* the url of the report in img_file)
CreatedWith(report) == {i \in images : i.img_file = report.url}

\* C20: get_report_by_report_id for report N returns every image created
\* with report N and only those, never an image created with another
\* report M, also when the decimal form of M starts with the digits of N.
C20_ImagesOfOwnReportOnly ==
    (resp.op = "get_report_by_report_id" /\ resp.status = 200) =>
        Range(resp.data.images) = CreatedWith(resp.data.report)

\* the rows of `rows` with id `id`
RowsWithId(rows, id) == {x \in rows : x.id = id}

\* C21: update_report and update_press_release select the row by the id of
\* the request body alone: the path id has no effect on the outcome, and a
\* PUT addressed to path id P with body id B (P # B) changes row B, or
\* answers 404 when there is no row B, and leaves row P unchanged.
C21_BodyIdSelectsTheRow ==
    [][ /\ \A P \in Ids, r \in UpdateReportRequests :
              (/\ resp'.op = "update_report"
               /\ resp'.req = PutRequest(P, r)
               /\ update_report(P, r) /\ P # r.id) =>
                /\ RowsWithId(reports', P) = RowsWithId(reports, P)
                /\ RowsWithId(reports, r.id) = {} =>
                      resp'.status = 404 /\ UNCHANGED Tables
                /\ resp'.status = 200 => RowsWithId(reports', r.id) = {r}
                /\ reports' \ RowsWithId(reports', r.id)
                      = reports \ RowsWithId(reports, r.id)
        /\ \A P \in Ids, r \in UpdatePressReleaseRequests :
              (/\ resp'.op = "update_press_release"
               /\ resp'.req = PutRequest(P, r)
               /\ update_press_release(P, r) /\ P # r.id) =>
                /\ RowsWithId(press', P) = RowsWithId(press, P)
                /\ RowsWithId(press, r.id) = {} =>
                      resp'.status = 404 /\ UNCHANGED Tables
                /\ resp'.status = 200 => RowsWithId(press', r.id) = {r}
                /\ press' \ RowsWithId(press', r.id)
                      = press \ RowsWithId(press, r.id) ]_vars

C21_Witness ==
    /\ resp.op = "update_report"
    /\ resp.status = 200
    /\ resp.req.path # resp.req.id
    /\ RowsWithId(reports, resp.req.path) # {}
    /\ \E x \in RowsWithId(reports, resp.req.id) : x.summary = "s3"
    /\ \E x \in RowsWithId(reports, resp.req.path) : x.summary # "s3"

\* C22: create_report_image returns, on the overwrite branch, the refreshed
\* existing row carrying the new img_file; on the insert branch it returns
\* null data although a new row with the request's img_name and img_file
\* has been committed.
C22_InsertBranchReturnsNull ==
    [][ \A image \in ImageRequests :
          (resp'.op = "create_report_image" /\ create_report_image(image)) =>
            IF Named(images, image.img_name) # {}
            THEN /\ resp'.data # None
                 /\ resp'.data[1] \in images'
                 /\ NameAndFile(resp'.data[1]) = image
                 /\ resp'.data[1].id \in IdsOf(Named(images, image.img_name))
            ELSE /\ resp'.data = None
                 /\ resp'.status = 200
                 /\ \E row \in images' \ images : NameAndFile(row) = image ]_vars

C22_Witness ==
    /\ resp.op = "create_report_image"
    /\ resp.status = 200
    /\ resp.data = None
    /\ images = { [id |-> 1, img_name |-> <<"R", "P", "X", "X", "X">>,
                   img_file |-> "f1"] }

====
